---------------------------- MODULE Spec2Model ----------------------------
(***************************************************************************)
(* Model of Dataset.cmd_makecldf (cldfbench_ewave.py): the schema          *)
(* augmentation followed by the single-pass joins and the renumbering of   *)
(* codes and values.                                                       *)
(*                                                                         *)
(* Python strings are modelled as sequences of one-character strings, so   *)
(* that str.format, str.replace and int() are computed character by        *)
(* character.  A dict is a function whose DOMAIN is its key set.           *)
(***************************************************************************)
EXTENDS Integers, Sequences, FiniteSets, TLC

(***************************************************************************)
(* Bounds of the model.                                                    *)
(***************************************************************************)
\* rows of a primary table (LanguageTable, ParameterTable, ...)
MaxRows == 2
\* rows of an association table (cc.csv, examplesource.csv, valueexample.csv)
MaxAssoc == 3

(***************************************************************************)
(* Strings.                                                                *)
(***************************************************************************)
Digits == {"0", "1", "2", "3", "4", "5", "6", "7", "8", "9"}

DigitVal(c) ==
    CASE c = "0" -> 0 [] c = "1" -> 1 [] c = "2" -> 2 [] c = "3" -> 3
      [] c = "4" -> 4 [] c = "5" -> 5 [] c = "6" -> 6 [] c = "7" -> 7
      [] c = "8" -> 8 [] c = "9" -> 9

\* int(s) for a string of decimal digits: leading zeros do not count
RECURSIVE int(_)
int(s) ==
    IF s = <<>> THEN 0
    ELSE 10 * int(SubSeq(s, 1, Len(s) - 1)) + DigitVal(s[Len(s)])

\* code points of the characters that occur in compared strings
ord(c) ==
    CASE c = "a" -> 97 [] c = "b" -> 98 [] c = "c" -> 99
      [] c \in Digits -> 48 + DigitVal(c)
      [] OTHER -> 0

\* '{0}-{1}'.format(a, b)
format(a, b) == a \o <<"-">> \o b

\* s.replace(old, new) for a one-character old
RECURSIVE replace(_, _, _)
replace(s, old, new) ==
    IF s = <<>> THEN <<>>
    ELSE (IF Head(s) = old THEN new ELSE <<Head(s)>>) \o replace(Tail(s), old, new)

NA == <<"N", "A">>

\* name.replace('?', 'NA')
replaceQ(s) == replace(s, "?", NA)

\* row['Value'] or 'NA'
orNA(v) == IF v = <<>> THEN NA ELSE v

(***************************************************************************)
(* sorted(rows, key=...) and itertools.groupby collected into a dict.      *)
(***************************************************************************)
\* Python's order on tuples of ints (a str component is given by its code
\* points): lexicographic, a proper prefix first
RECURSIVE KeyLess(_, _)
KeyLess(k1, k2) ==
    IF k2 = <<>> THEN FALSE
    ELSE IF k1 = <<>> THEN TRUE
    ELSE IF Head(k1) # Head(k2) THEN Head(k1) < Head(k2)
    ELSE KeyLess(Tail(k1), Tail(k2))

\* x inserted behind every element whose key is not greater (stable)
RECURSIVE Insert(_, _)
Insert(x, s) ==
    IF s = <<>> THEN <<x>>
    ELSE IF KeyLess(x.key, Head(s).key) THEN <<x>> \o s
    ELSE <<Head(s)>> \o Insert(x, Tail(s))

\* sorted(s, key=lambda r: r.key) of a sequence of [key, owner, entry]
RECURSIVE sorted(_)
sorted(s) ==
    IF s = <<>> THEN <<>>
    ELSE Insert(s[Len(s)], sorted(SubSeq(s, 1, Len(s) - 1)))

\* d with d[k] = v
Put(d, k, v) == [x \in DOMAIN d \cup {k} |-> IF x = k THEN v ELSE d[x]]

EmptyDict == [x \in {} |-> <<>>]

\* {k: [entry ...] for k, rows in itertools.groupby(s, owner)}: a group is a
\* maximal run of consecutive rows with the same owner string, and a later
\* group of an owner replaces the earlier one in the dict
RECURSIVE GroupFrom(_, _, _)
GroupFrom(s, i, d) ==
    IF i > Len(s) THEN d
    ELSE IF i > 1 /\ s[i - 1].owner = s[i].owner
         THEN GroupFrom(s, i + 1, Put(d, s[i].owner, Append(d[s[i].owner], s[i].entry)))
         ELSE GroupFrom(s, i + 1, Put(d, s[i].owner, <<s[i].entry>>))

groupby(s) == GroupFrom(s, 1, EmptyDict)

\* d.get(k, [])
get(d, k) == IF k \in DOMAIN d THEN d[k] ELSE <<>>

\* {r[0]: r[1:] for r in rows}: the last row of a key wins
RECURSIVE DictFrom(_, _, _)
DictFrom(s, i, d) ==
    IF i > Len(s) THEN d ELSE DictFrom(s, i + 1, Put(d, s[i].ID, s[i]))

dictOf(s) == DictFrom(s, 1, EmptyDict)


(***************************************************************************)
(* The schema: args.writer.cldf, initialised from the raw dataset's        *)
(* metadata (cldf_specs), then changed call by call.                       *)
(***************************************************************************)
\* ds[name]: a table is addressed by its component name or by its url
url(name) ==
    CASE name = "LanguageTable" -> "languages.csv"
      [] name = "ParameterTable" -> "parameters.csv"
      [] name = "CodeTable" -> "codes.csv"
      [] name = "ValueTable" -> "values.csv"
      [] name = "ExampleTable" -> "examples.csv"
      [] OTHER -> name

\* tables, columns and foreign keys of the download's metadata
BaseTables ==
    {"languages.csv", "parameters.csv", "codes.csv", "values.csv",
     "examples.csv", "contributions.csv"}

BaseColumns ==
    ({"languages.csv", "parameters.csv", "contributions.csv"} \X {"ID", "Name"})
    \cup ({"codes.csv"} \X {"ID", "Parameter_ID", "Name"})
    \cup ({"examples.csv"} \X {"ID", "Language_ID"})
    \cup ({"values.csv"} \X
            {"ID", "Language_ID", "Parameter_ID", "Value", "Code_ID", "Contribution_ID"})

fk(t, c, r) == [table |-> t, col |-> c, ref |-> r]

BaseForeignKeys ==
    {fk("codes.csv", "Parameter_ID", "parameters.csv"),
     fk("examples.csv", "Language_ID", "languages.csv"),
     fk("values.csv", "Language_ID", "languages.csv"),
     fk("values.csv", "Parameter_ID", "parameters.csv"),
     fk("values.csv", "Code_ID", "codes.csv"),
     fk("values.csv", "Contribution_ID", "contributions.csv")}

call(o, t, c, r) == [op |-> o, table |-> t, cols |-> c, ref |-> r]

\* the calls with the foreign key to regions.csv declared before the table
SchemaOpsKeyFirst ==
    << call("add_foreign_key", "LanguageTable", {"Region_ID"}, "regions.csv"),
       call("add_table", "regions.csv", {"ID", "Name"}, ""),
       call("add_table", "varietytypes.csv", {"ID", "Name", "Description"}, ""),
       call("add_table", "featurecategories.csv", {"ID", "Name", "Description"}, ""),
       call("add_table", "contributors.csv", {"ID", "Name", "URL", "Address", "Email"}, ""),
       call("remove_table", "contributions.csv", {}, ""),
       call("add_columns", "LanguageTable",
            {"Description", "Region_ID", "Type_ID", "abbr", "Contributor_ID"}, ""),
       call("add_foreign_key", "LanguageTable", {"Type_ID"}, "varietytypes.csv"),
       call("add_foreign_key", "LanguageTable", {"Contributor_ID"}, "contributors.csv"),
       call("add_columns", "ParameterTable",
            {"Category_ID", "Example_Source", "Attestation", "Pervasiveness"}, ""),
       call("add_foreign_key", "ParameterTable", {"Category_ID"}, "featurecategories.csv"),
       call("add_columns", "ValueTable", {"Example_ID"}, ""),
       call("remove_columns", "ValueTable", {"Contribution_ID"}, ""),
       call("add_columns", "ExampleTable", {"Source"}, ""),
       call("add_table", "history.csv",
            {"Version", "Language_ID", "Parameter_ID", "Code_ID"}, ""),
       call("add_foreign_key", "history.csv", {"Language_ID"}, "languages.csv"),
       call("add_foreign_key", "history.csv", {"Parameter_ID"}, "parameters.csv"),
       call("add_foreign_key", "history.csv", {"Code_ID"}, "codes.csv") >>

\* the schema calls of cmd_makecldf, in program order
SchemaOps ==
    << call("add_table", "regions.csv", {"ID", "Name"}, ""),
       call("add_table", "varietytypes.csv", {"ID", "Name", "Description"}, ""),
       call("add_table", "featurecategories.csv", {"ID", "Name", "Description"}, ""),
       call("add_table", "contributors.csv", {"ID", "Name", "URL", "Address", "Email"}, ""),
       call("remove_table", "contributions.csv", {}, ""),
       call("add_columns", "LanguageTable",
            {"Description", "Region_ID", "Type_ID", "abbr", "Contributor_ID"}, ""),
       call("add_foreign_key", "LanguageTable", {"Region_ID"}, "regions.csv"),
       call("add_foreign_key", "LanguageTable", {"Type_ID"}, "varietytypes.csv"),
       call("add_foreign_key", "LanguageTable", {"Contributor_ID"}, "contributors.csv"),
       call("add_columns", "ParameterTable",
            {"Category_ID", "Example_Source", "Attestation", "Pervasiveness"}, ""),
       call("add_foreign_key", "ParameterTable", {"Category_ID"}, "featurecategories.csv"),
       call("add_columns", "ValueTable", {"Example_ID"}, ""),
       call("remove_columns", "ValueTable", {"Contribution_ID"}, ""),
       call("add_columns", "ExampleTable", {"Source"}, ""),
       call("add_table", "history.csv",
            {"Version", "Language_ID", "Parameter_ID", "Code_ID"}, ""),
       call("add_foreign_key", "history.csv", {"Language_ID"}, "languages.csv"),
       call("add_foreign_key", "history.csv", {"Parameter_ID"}, "parameters.csv"),
       call("add_foreign_key", "history.csv", {"Code_ID"}, "codes.csv") >>


(***************************************************************************)
(* The raw directory: the files cmd_makecldf reads.  A file is the         *)
(* sequence of its rows; only the columns the transform reads or writes    *)
(* are kept, every other column of a row passes through unchanged.         *)
(***************************************************************************)
\* sequences over S of length at most n
RECURSIVE Seqs(_, _)
Seqs(S, n) ==
    IF n = 0 THEN {<<>>}
    ELSE LET shorter == Seqs(S, n - 1)
         IN  shorter \cup {Append(q, x) : q \in shorter, x \in S}

\* ... without a repeated element
DistinctSeqs(S, n) ==
    {q \in Seqs(S, n) : \A a, b \in 1..Len(q) : a # b => q[a] # q[b]}

\* ... of rows, without a repeated ID (the primary key of a table)
KeyedSeqs(S, n) ==
    {q \in Seqs(S, n) : \A a, b \in 1..Len(q) : a # b => q[a].ID # q[b].ID}

LangIDs == {<<"1">>, <<"0", "1">>, <<"2">>}
ParamIDs == {<<"1">>, <<"2">>}
RegionIDs == {<<"1">>, <<"2">>}
TypeIDs == {<<"1">>}
CategoryIDs == {<<"1">>}
ContributorIDs == {<<"7">>, <<"8">>}
OrdNumbers == {<<"1">>, <<"2">>}
ExampleIDs == {<<"1">>, <<"0", "1">>}
SentenceIDs == {<<"1">>, <<"2">>, <<"3">>}
SourceKeys == {<<"a">>, <<"b">>}
Descriptions == {<<"[", "p", "]">>}
CodeIDs == {<<"1", "0">>, <<"1", "1">>}
CodeNames == {<<"A">>, <<"?">>, NA}
ValueIDs == {<<"1">>, <<"0", "1">>, <<"2">>}
Ratings == {<<"A">>, <<"?">>, <<>>}

\* variety.csv: id, region, type, abbreviation
VarietyRows ==
    [ID : LangIDs, Region_ID : {<<"1">>}, Type_ID : TypeIDs, abbr : {<<"a">>}]
\* contributions.csv: ID, Description
ContributionRows == [ID : LangIDs, Description : {<<"d">>}]
\* cc.csv: language, contributor, order number
CCRows(owners) == [language : owners, contributor : ContributorIDs, ord : OrdNumbers]
\* feature.csv: id, example source, category, attestation, pervasiveness
FeatureRows ==
    [ID : ParamIDs, Example_Source : {<<"s">>}, Category_ID : CategoryIDs,
     Attestation : {<<"5", "0">>}, Pervasiveness : {<<"3", "0">>}]
\* examplesource.csv: example, source, description
ExampleSourceRows ==
    [example : ExampleIDs, source : SourceKeys, description : Descriptions]
\* valueexample.csv: value, sentence
ValueExampleRows == [value : {<<"1">>, <<"0", "1">>}, sentence : SentenceIDs]
\* codes.csv of the download
CodeRows == [ID : CodeIDs, Parameter_ID : ParamIDs, Name : CodeNames]
\* values.csv of the download
ValueRows ==
    [ID : ValueIDs, Language_ID : {<<"1">>, <<"2">>}, Parameter_ID : {<<"1">>},
     Value : Ratings]
\* changes.json['2013']: language, feature, code
ChangeRows == [lid : {<<"1">>}, pid : {<<"1">>}, cid : {<<"A">>, <<"?">>}]

rawValue(id, l, p, v) == [ID |-> id, Language_ID |-> l, Parameter_ID |-> p, Value |-> v]

\* a small consistent dataset
Baseline ==
    [ region          |-> <<<<"1">>, <<"2">>>>,
      varietytype     |-> <<<<"1">>>>,
      featurecategory |-> <<<<"1">>>>,
      contributors    |-> <<<<"7">>, <<"8">>>>,
      changes         |-> <<[lid |-> <<"1">>, pid |-> <<"1">>, cid |-> <<"?">>]>>,
      cc              |-> <<[language |-> <<"1">>, contributor |-> <<"7">>, ord |-> <<"1">>],
                            [language |-> <<"2">>, contributor |-> <<"8">>, ord |-> <<"1">>]>>,
      contributions   |-> <<[ID |-> <<"1">>, Description |-> <<"d">>],
                            [ID |-> <<"2">>, Description |-> <<"d">>]>>,
      variety         |-> <<[ID |-> <<"1">>, Region_ID |-> <<"1">>, Type_ID |-> <<"1">>,
                             abbr |-> <<"a">>],
                            [ID |-> <<"2">>, Region_ID |-> <<"2">>, Type_ID |-> <<"1">>,
                             abbr |-> <<"a">>]>>,
      languages       |-> <<<<"1">>, <<"2">>>>,
      feature         |-> <<[ID |-> <<"1">>, Example_Source |-> <<"s">>,
                             Category_ID |-> <<"1">>, Attestation |-> <<"5", "0">>,
                             Pervasiveness |-> <<"3", "0">>],
                            [ID |-> <<"2">>, Example_Source |-> <<"s">>,
                             Category_ID |-> <<"1">>, Attestation |-> <<"5", "0">>,
                             Pervasiveness |-> <<"3", "0">>]>>,
      parameters      |-> <<<<"1">>, <<"2">>>>,
      examplesource   |-> <<[example |-> <<"1">>, source |-> <<"a">>,
                             description |-> <<"[", "p", "]">>]>>,
      examples        |-> <<<<"1">>, <<"2">>>>,
      codes           |-> <<[ID |-> <<"1", "0">>, Parameter_ID |-> <<"1">>, Name |-> <<"A">>],
                            [ID |-> <<"1", "1">>, Parameter_ID |-> <<"1">>, Name |-> <<"?">>]>>,
      valueexample    |-> <<[value |-> <<"1">>, sentence |-> <<"2">>],
                            [value |-> <<"1">>, sentence |-> <<"1">>]>>,
      values          |-> <<rawValue(<<"1">>, <<"1">>, <<"1">>, <<"A">>),
                            rawValue(<<"2">>, <<"2">>, <<"1">>, <<>>)>> ]

\* The datasets a run starts from: the baseline with one group of files
\* replaced by every content within the bounds.
VocabularyInputs ==
    {[Baseline EXCEPT !.region = r, !.varietytype = t, !.featurecategory = f,
                      !.contributors = c] :
        r \in DistinctSeqs(RegionIDs, MaxRows), t \in DistinctSeqs(TypeIDs, MaxRows),
        f \in DistinctSeqs(CategoryIDs, MaxRows),
        c \in DistinctSeqs(ContributorIDs, MaxRows)}

LanguageInputs ==
    {[Baseline EXCEPT !.languages = l, !.variety = v, !.contributions = d] :
        l \in DistinctSeqs(LangIDs, MaxRows), v \in KeyedSeqs(VarietyRows, MaxRows),
        d \in KeyedSeqs(ContributionRows, MaxRows)}

ContributorInputs ==
    {[Baseline EXCEPT !.languages = l, !.cc = c,
                      !.variety = [k \in 1..Len(l) |->
                                     [ID |-> l[k], Region_ID |-> <<"1">>,
                                      Type_ID |-> <<"1">>, abbr |-> <<"a">>]],
                      !.contributions = [k \in 1..Len(l) |->
                                     [ID |-> l[k], Description |-> <<"d">>]]] :
        l \in {<<<<"1">>>>, <<<<"1">>, <<"0", "1">>>>},
        c \in Seqs(CCRows({<<"1">>, <<"0", "1">>}), MaxAssoc)}

ParameterInputs ==
    {[Baseline EXCEPT !.parameters = q, !.feature = f] :
        q \in DistinctSeqs(ParamIDs, MaxRows), f \in KeyedSeqs(FeatureRows, MaxRows)}

ExampleInputs ==
    {[Baseline EXCEPT !.examples = e, !.examplesource = s] :
        e \in DistinctSeqs(ExampleIDs, MaxRows), s \in Seqs(ExampleSourceRows, MaxAssoc)}

CodeInputs ==
    {[Baseline EXCEPT !.codes = c, !.changes = h] :
        c \in KeyedSeqs(CodeRows, MaxRows), h \in Seqs(ChangeRows, MaxRows)}

ValueInputs ==
    {[Baseline EXCEPT !.values = v] : v \in KeyedSeqs(ValueRows, MaxRows)}

ValueExampleInputs ==
    {[Baseline EXCEPT !.values = v, !.valueexample = s] :
        v \in {<<rawValue(<<"1">>, <<"1">>, <<"1">>, <<"A">>)>>,
               <<rawValue(<<"1">>, <<"1">>, <<"1">>, <<"A">>),
                 rawValue(<<"0", "1">>, <<"2">>, <<"1">>, <<"A">>)>>},
        s \in Seqs(ValueExampleRows, MaxAssoc)}

Inputs ==
    VocabularyInputs \cup LanguageInputs \cup ContributorInputs \cup ParameterInputs
    \cup ExampleInputs \cup CodeInputs \cup ValueInputs \cup ValueExampleInputs


(***************************************************************************)
(* The row transforms of the loops.                                        *)
(***************************************************************************)
NoError == [exc |-> "", dict |-> "", key |-> <<>>]
KeyError(d, k) == [exc |-> "KeyError", dict |-> d, key |-> k]
NoRow == <<>>

\* the LanguageTable loop body with d.get(k, '') in place of d[k]
languageRowDefaulting(id, data_, desc_, cc_) ==
    [ok |-> TRUE, error |-> NoError,
     row |-> [ID |-> id,
              Region_ID |-> IF id \in DOMAIN data_ THEN data_[id].Region_ID ELSE <<>>,
              Type_ID |-> IF id \in DOMAIN data_ THEN data_[id].Type_ID ELSE <<>>,
              abbr |-> IF id \in DOMAIN data_ THEN data_[id].abbr ELSE <<>>,
              Description |-> IF id \in DOMAIN desc_ THEN desc_[id] ELSE <<>>,
              Contributor_ID |-> IF id \in DOMAIN cc_ THEN cc_[id] ELSE <<>>]]

\* the body of the LanguageTable loop: d[k] raises KeyError for a missing k
languageRow(id, data_, desc_, cc_) ==
    IF id \notin DOMAIN data_ THEN [ok |-> FALSE, error |-> KeyError("data", id), row |-> NoRow]
    ELSE IF id \notin DOMAIN desc_
         THEN [ok |-> FALSE, error |-> KeyError("desc", id), row |-> NoRow]
    ELSE IF id \notin DOMAIN cc_
         THEN [ok |-> FALSE, error |-> KeyError("cc", id), row |-> NoRow]
    ELSE [ok |-> TRUE, error |-> NoError,
          row |-> [ID |-> id,
                   Region_ID |-> data_[id].Region_ID,
                   Type_ID |-> data_[id].Type_ID,
                   abbr |-> data_[id].abbr,
                   Description |-> desc_[id],
                   Contributor_ID |-> cc_[id]]]

\* the body of the ParameterTable loop
parameterRow(id, data_) ==
    IF id \notin DOMAIN data_ THEN [ok |-> FALSE, error |-> KeyError("data", id), row |-> NoRow]
    ELSE [ok |-> TRUE, error |-> NoError,
          row |-> [ID |-> id,
                   Example_Source |-> data_[id].Example_Source,
                   Category_ID |-> data_[id].Category_ID,
                   Attestation |-> data_[id].Attestation,
                   Pervasiveness |-> data_[id].Pervasiveness]]

\* str(Reference(source, description)) with the brackets of the description
\* replaced
ref(r) ==
    LET d == replace(replace(r.description, "[", <<"(">>), "]", <<")">>)
    IN  IF d = <<>> THEN r.source ELSE r.source \o <<"[">> \o d \o <<"]">>

\* the body of the ExampleTable loop
exampleRow(id, examplesource_) == [ID |-> id, Source |-> get(examplesource_, id)]

\* the body of the CodeTable loop
codeRow(row) ==
    [ID |-> format(row.Parameter_ID, replaceQ(row.Name)),
     Parameter_ID |-> row.Parameter_ID, Name |-> row.Name]

\* the ValueTable loop body with the ID rewritten before the lookup
valueRowRenumberFirst(row, valuesentence_) ==
    LET r1 == [ID |-> format(row.Language_ID, row.Parameter_ID)]
        r2 == [ID |-> r1.ID, Example_ID |-> get(valuesentence_, r1.ID)]
    IN  [key |-> r1.ID,
         row |-> [ID |-> r2.ID, Language_ID |-> row.Language_ID,
                  Parameter_ID |-> row.Parameter_ID, Value |-> row.Value,
                  Code_ID |-> format(row.Parameter_ID, orNA(row.Value)),
                  Example_ID |-> r2.Example_ID]]

\* the body of the ValueTable loop, statement by statement; key is the key
\* the lookup in valuesentence was made with
valueRow(row, valuesentence_) ==
    LET r1 == [ID |-> row.ID, Example_ID |-> get(valuesentence_, row.ID)]
        r2 == [r1 EXCEPT !.ID = format(row.Language_ID, row.Parameter_ID)]
    IN  [key |-> row.ID,
         row |-> [ID |-> r2.ID, Language_ID |-> row.Language_ID,
                  Parameter_ID |-> row.Parameter_ID, Value |-> row.Value,
                  Code_ID |-> format(row.Parameter_ID, orNA(row.Value)),
                  Example_ID |-> r2.Example_ID]]

\* the history row of one change
historyRow(c) ==
    [Version |-> <<"1", ".", "0">>, Language_ID |-> c.lid, Parameter_ID |-> c.pid,
     Code_ID |-> format(c.pid, replaceQ(c.cid))]

\* code points of a string
ords(s) == [k \in 1..Len(s) |-> ord(s[k])]

\* cc.csv rows with the sort key (int(r[0]), int(r[2]), int(r[1]))
ccItems(rows) ==
    [k \in 1..Len(rows) |->
        [key |-> <<int(rows[k].language), int(rows[k].ord), int(rows[k].contributor)>>,
         owner |-> rows[k].language, entry |-> rows[k].contributor]]

\* examplesource.csv rows with the sort key (int(d['example']), d['source'])
examplesourceItems(rows) ==
    [k \in 1..Len(rows) |->
        [key |-> <<int(rows[k].example)>> \o ords(rows[k].source),
         owner |-> rows[k].example, entry |-> ref(rows[k])]]

\* valueexample.csv rows with the sort key (int(d['value']), int(d['sentence']))
valuesentenceItems(rows) ==
    [k \in 1..Len(rows) |->
        [key |-> <<int(rows[k].value), int(rows[k].sentence)>>,
         owner |-> rows[k].value, entry |-> rows[k].sentence]]

\* {r['ID']: r['Description'] for r in rows}
descOf(rows) == [k \in DOMAIN dictOf(rows) |-> dictOf(rows)[k].Description]

\* list.insert(0, row)
insertFirst(list, row) == <<row>> \o list

\* list.append
append(list, row) == Append(list, row)

(***************************************************************************)
(* State.                                                                  *)
(***************************************************************************)
VARIABLES
    pc,             \* the place of the run in cmd_makecldf
    si,             \* index of the next schema call
    tables,         \* ds.tables, by url
    columns,        \* the columns of the tables, <<url, name>>
    foreignKeys,    \* the foreign keys of the tables
    raw,            \* the raw directory
    objects,        \* args.writer.objects, the output accumulator
    cc, desc, data, examplesource, valuesentence,   \* the dicts of the joins
    i,              \* the row a loop is at
    lookups,        \* the keys the joins were looked up with, per table
    error           \* the exception that ended the run

vars ==
    <<pc, si, tables, columns, foreignKeys, raw, objects, cc, desc, data,
      examplesource, valuesentence, i, lookups, error>>

schemaVars == <<tables, columns, foreignKeys>>
joinVars == <<cc, desc, data, examplesource, valuesentence>>

NoObjects ==
    [regions |-> <<>>, varietytypes |-> <<>>, featurecategories |-> <<>>,
     contributors |-> <<>>, history |-> <<>>, LanguageTable |-> <<>>,
     ParameterTable |-> <<>>, ExampleTable |-> <<>>, CodeTable |-> <<>>,
     ValueTable |-> <<>>]

NoLookups ==
    [LanguageTable |-> <<>>, ParameterTable |-> <<>>, ExampleTable |-> <<>>,
     ValueTable |-> <<>>]

Init ==
    /\ pc = "schema"
    /\ si = 1
    /\ tables = BaseTables
    /\ columns = BaseColumns
    /\ foreignKeys = BaseForeignKeys
    /\ raw \in Inputs
    /\ objects = NoObjects
    /\ cc = EmptyDict /\ desc = EmptyDict /\ data = EmptyDict
    /\ examplesource = EmptyDict /\ valuesentence = EmptyDict
    /\ i = 0
    /\ lookups = NoLookups
    /\ error = NoError

(***************************************************************************)
(* The schema calls.                                                       *)
(***************************************************************************)
op == SchemaOps[si]

\* the place after schema call si
Advance ==
    /\ si' = si + 1
    /\ pc' = IF si = Len(SchemaOps) THEN "vocabularies" ELSE "schema"
    /\ UNCHANGED error

\* ds[name] of a table the schema does not hold
Raise(d, k) ==
    /\ pc' = "error"
    /\ error' = KeyError(d, k)
    /\ UNCHANGED si

SchemaCall(name) == pc = "schema" /\ si <= Len(SchemaOps) /\ op.op = name

add_table ==
    /\ SchemaCall("add_table")
    /\ tables' = tables \cup {url(op.table)}
    /\ columns' = columns \cup ({url(op.table)} \X op.cols)
    /\ Advance
    /\ UNCHANGED <<foreignKeys, raw, objects, joinVars, i, lookups>>

\* the table goes, and with it every foreign key that references it
remove_table ==
    /\ SchemaCall("remove_table")
    /\ IF url(op.table) \in tables
       THEN /\ foreignKeys' = {f \in foreignKeys :
                                 f.ref # url(op.table) /\ f.table # url(op.table)}
            /\ tables' = tables \ {url(op.table)}
            /\ columns' = {c \in columns : c[1] # url(op.table)}
            /\ Advance
       ELSE Raise("tables", op.table) /\ UNCHANGED schemaVars
    /\ UNCHANGED <<raw, objects, joinVars, i, lookups>>

add_columns ==
    /\ SchemaCall("add_columns")
    /\ IF url(op.table) \in tables
       THEN /\ columns' = columns \cup ({url(op.table)} \X op.cols)
            /\ Advance
       ELSE Raise("tables", op.table) /\ UNCHANGED columns
    /\ UNCHANGED <<tables, foreignKeys, raw, objects, joinVars, i, lookups>>

\* the columns go, and with them the foreign keys on them
remove_columns ==
    /\ SchemaCall("remove_columns")
    /\ IF url(op.table) \in tables
       THEN /\ foreignKeys' = {f \in foreignKeys :
                                 ~(f.table = url(op.table) /\ f.col \in op.cols)}
            /\ columns' = columns \ ({url(op.table)} \X op.cols)
            /\ Advance
       ELSE Raise("tables", op.table) /\ UNCHANGED <<columns, foreignKeys>>
    /\ UNCHANGED <<tables, raw, objects, joinVars, i, lookups>>

\* the key is appended to the table's foreign keys; the referenced table is
\* not looked up
add_foreign_key ==
    /\ SchemaCall("add_foreign_key")
    /\ IF url(op.table) \in tables
       THEN /\ foreignKeys' = foreignKeys \cup
                                {fk(url(op.table), c, op.ref) : c \in op.cols}
            /\ Advance
       ELSE Raise("tables", op.table) /\ UNCHANGED foreignKeys
    /\ UNCHANGED <<tables, columns, raw, objects, joinVars, i, lookups>>


(***************************************************************************)
(* The data.                                                               *)
(***************************************************************************)
\* a table of the output with rows added
Extend(table, rows) == [objects EXCEPT ![table] = objects[table] \o rows]

\* the three controlled vocabularies, each read in one comprehension
LoadVocabularies ==
    /\ pc = "vocabularies"
    /\ objects' = [objects EXCEPT
                     !.varietytypes = [k \in 1..Len(raw.varietytype) |->
                                         [ID |-> raw.varietytype[k]]],
                     !.featurecategories = [k \in 1..Len(raw.featurecategory) |->
                                         [ID |-> raw.featurecategory[k]]],
                     !.regions = [k \in 1..Len(raw.region) |-> [ID |-> raw.region[k]]]]
    /\ pc' = "history"
    /\ UNCHANGED <<si, schemaVars, raw, joinVars, i, lookups, error>>

\* the loop over changes.json['2013']
LoadHistory ==
    /\ pc = "history"
    /\ objects' = Extend("history",
                         [k \in 1..Len(raw.changes) |-> historyRow(raw.changes[k])])
    /\ pc' = "contributors"
    /\ UNCHANGED <<si, schemaVars, raw, joinVars, i, lookups, error>>

\* the loop over contributors.csv
LoadContributors ==
    /\ pc = "contributors"
    /\ objects' = Extend("contributors",
                         [k \in 1..Len(raw.contributors) |-> [ID |-> raw.contributors[k]]])
    /\ pc' = "joins"
    /\ UNCHANGED <<si, schemaVars, raw, joinVars, i, lookups, error>>

\* cc, desc and data, built before the LanguageTable loop
BuildLanguageJoins ==
    /\ pc = "joins"
    /\ cc' = groupby(sorted(ccItems(raw.cc)))
    /\ desc' = descOf(raw.contributions)
    /\ data' = dictOf(raw.variety)
    /\ i' = 1
    /\ pc' = "languages"
    /\ UNCHANGED <<si, schemaVars, raw, objects, examplesource, valuesentence, lookups,
                   error>>

\* one pass of the LanguageTable loop
LanguageRow ==
    /\ pc = "languages"
    /\ i <= Len(raw.languages)
    /\ LET r == languageRow(raw.languages[i], data, desc, cc)
       IN  /\ lookups' = [lookups EXCEPT
                            !.LanguageTable = Append(@, raw.languages[i])]
           /\ IF r.ok
              THEN /\ objects' = [objects EXCEPT
                                    !.LanguageTable = append(@, r.row)]
                   /\ i' = i + 1
                   /\ UNCHANGED <<pc, error>>
              ELSE /\ pc' = "error"
                   /\ error' = r.error
                   /\ UNCHANGED <<objects, i>>
    /\ UNCHANGED <<si, schemaVars, raw, joinVars>>

\* data is rebound to feature.csv when the LanguageTable loop is through
BuildParameterJoin ==
    /\ pc = "languages"
    /\ i > Len(raw.languages)
    /\ data' = dictOf(raw.feature)
    /\ i' = 1
    /\ pc' = "parameters"
    /\ UNCHANGED <<si, schemaVars, raw, objects, cc, desc, examplesource, valuesentence,
                   lookups, error>>

\* one pass of the ParameterTable loop
ParameterRow ==
    /\ pc = "parameters"
    /\ i <= Len(raw.parameters)
    /\ LET r == parameterRow(raw.parameters[i], data)
       IN  /\ lookups' = [lookups EXCEPT
                            !.ParameterTable = Append(@, raw.parameters[i])]
           /\ IF r.ok
              THEN /\ objects' = [objects EXCEPT
                                    !.ParameterTable = append(@, r.row)]
                   /\ i' = i + 1
                   /\ UNCHANGED <<pc, error>>
              ELSE /\ pc' = "error"
                   /\ error' = r.error
                   /\ UNCHANGED <<objects, i>>
    /\ UNCHANGED <<si, schemaVars, raw, joinVars>>

\* examplesource and the ExampleTable loop, which cannot fail
Examples ==
    /\ pc = "parameters"
    /\ i > Len(raw.parameters)
    /\ LET es == groupby(sorted(examplesourceItems(raw.examplesource)))
       IN  /\ examplesource' = es
           /\ objects' = Extend("ExampleTable",
                                [k \in 1..Len(raw.examples) |->
                                    exampleRow(raw.examples[k], es)])
           /\ lookups' = [lookups EXCEPT !.ExampleTable = raw.examples]
    /\ pc' = "codes"
    /\ UNCHANGED <<si, schemaVars, raw, cc, desc, data, valuesentence, i, error>>

\* the CodeTable loop
Codes ==
    /\ pc = "codes"
    /\ objects' = Extend("CodeTable",
                         [k \in 1..Len(raw.codes) |-> codeRow(raw.codes[k])])
    /\ pc' = "values"
    /\ UNCHANGED <<si, schemaVars, raw, joinVars, i, lookups, error>>

\* valuesentence and the ValueTable loop
Values ==
    /\ pc = "values"
    /\ LET vs == groupby(sorted(valuesentenceItems(raw.valueexample)))
       IN  /\ valuesentence' = vs
           /\ objects' = Extend("ValueTable",
                                [k \in 1..Len(raw.values) |->
                                    valueRow(raw.values[k], vs).row])
           /\ lookups' = [lookups EXCEPT
                            !.ValueTable = [k \in 1..Len(raw.values) |->
                                              valueRow(raw.values[k], vs).key]]
    /\ pc' = "done"
    /\ UNCHANGED <<si, schemaVars, raw, cc, desc, data, examplesource, i, error>>

Next ==
    \/ add_table
    \/ remove_table
    \/ add_columns
    \/ remove_columns
    \/ add_foreign_key
    \/ LoadVocabularies
    \/ LoadHistory
    \/ LoadContributors
    \/ BuildLanguageJoins
    \/ LanguageRow
    \/ BuildParameterJoin
    \/ ParameterRow
    \/ Examples
    \/ Codes
    \/ Values

Spec == Init /\ [][Next]_vars


(***************************************************************************)
(* Properties.                                                             *)
(***************************************************************************)
IDs(rows) == {rows[k].ID : k \in 1..Len(rows)}
Unique(rows) == \A a, b \in 1..Len(rows) : a # b => rows[a].ID # rows[b].ID
Elements(list) == {list[k] : k \in 1..Len(list)}

\* C1: when the run is through, every Value row has the ID
\* '{Language_ID}-{Parameter_ID}' and no two Value rows share an ID.
C1_ValueIDsDerivedAndUnique ==
    pc = "done" =>
        /\ \A k \in 1..Len(objects.ValueTable) :
              objects.ValueTable[k].ID =
                 format(objects.ValueTable[k].Language_ID,
                        objects.ValueTable[k].Parameter_ID)
        /\ Unique(objects.ValueTable)

\* C2: when the run is through, every foreign key of the output names a row
\* of its target table.
C2_ForeignKeysResolve ==
    pc = "done" =>
        /\ \A k \in 1..Len(objects.LanguageTable) :
              /\ objects.LanguageTable[k].Region_ID \in IDs(objects.regions)
              /\ objects.LanguageTable[k].Type_ID \in IDs(objects.varietytypes)
              /\ Elements(objects.LanguageTable[k].Contributor_ID)
                    \subseteq IDs(objects.contributors)
        /\ \A k \in 1..Len(objects.ParameterTable) :
              objects.ParameterTable[k].Category_ID \in IDs(objects.featurecategories)
        /\ \A k \in 1..Len(objects.ValueTable) :
              objects.ValueTable[k].Code_ID \in IDs(objects.CodeTable)
        /\ \A k \in 1..Len(objects.history) :
              objects.history[k].Code_ID \in IDs(objects.CodeTable)

\* the spec's normalized(Name): the name '?' becomes 'NA'
normalized(name) == IF name = <<"?">> THEN NA ELSE name

\* C3: when the run is through, every Code row has the ID
\* '{Parameter_ID}-{normalized(Name)}' and no two Code rows share an ID.
C3_CodeIDsDerivedAndUnique ==
    pc = "done" =>
        /\ \A k \in 1..Len(objects.CodeTable) :
              objects.CodeTable[k].ID =
                 format(objects.CodeTable[k].Parameter_ID,
                        normalized(objects.CodeTable[k].Name))
        /\ Unique(objects.CodeTable)

\* a row of variety.csv, contributions.csv, feature.csv with this id
InVariety(id) == \E k \in 1..Len(raw.variety) : raw.variety[k].ID = id
InContributions(id) == \E k \in 1..Len(raw.contributions) : raw.contributions[k].ID = id
InFeature(id) == \E k \in 1..Len(raw.feature) : raw.feature[k].ID = id

\* the run stopped with a KeyError for id, with rows rows of table written
\* and nothing written to the tables that follow
AbortedAt(id, table, rows) ==
    /\ pc = "error"
    /\ error.exc = "KeyError" /\ error.key = id
    /\ Len(objects[table]) = rows
    /\ objects.ValueTable = <<>> /\ objects.CodeTable = <<>> /\ objects.ExampleTable = <<>>
    /\ table = "LanguageTable" => objects.ParameterTable = <<>>

\* C4: once the loop has come to a Language row whose ID is not in
\* variety.csv or not in contributions.csv, or to a Parameter row whose ID is
\* not in feature.csv, the run has ended in a KeyError with that row not
\* written; a run with such a row is never through; and every row that was
\* written carries the joined values.
C4_RequiredJoinMissAborts ==
    /\ pc = "done" =>
          /\ \A k \in 1..Len(raw.languages) :
                InVariety(raw.languages[k]) /\ InContributions(raw.languages[k])
          /\ \A k \in 1..Len(raw.parameters) : InFeature(raw.parameters[k])
    /\ \A k \in 1..Len(lookups.LanguageTable) :
          (~InVariety(raw.languages[k]) \/ ~InContributions(raw.languages[k]))
             => AbortedAt(raw.languages[k], "LanguageTable", k - 1)
    /\ \A k \in 1..Len(lookups.ParameterTable) :
          ~InFeature(raw.parameters[k])
             => AbortedAt(raw.parameters[k], "ParameterTable", k - 1)
    /\ \A k \in 1..Len(objects.LanguageTable) :
          \E v \in 1..Len(raw.variety), c \in 1..Len(raw.contributions) :
             /\ raw.variety[v].ID = objects.LanguageTable[k].ID
             /\ raw.contributions[c].ID = objects.LanguageTable[k].ID
             /\ objects.LanguageTable[k].Region_ID = raw.variety[v].Region_ID
             /\ objects.LanguageTable[k].Type_ID = raw.variety[v].Type_ID
             /\ objects.LanguageTable[k].abbr = raw.variety[v].abbr
             /\ objects.LanguageTable[k].Description = raw.contributions[c].Description
    /\ \A k \in 1..Len(objects.ParameterTable) :
          \E f \in 1..Len(raw.feature) :
             /\ raw.feature[f].ID = objects.ParameterTable[k].ID
             /\ objects.ParameterTable[k].Example_Source = raw.feature[f].Example_Source
             /\ objects.ParameterTable[k].Category_ID = raw.feature[f].Category_ID
             /\ objects.ParameterTable[k].Attestation = raw.feature[f].Attestation
             /\ objects.ParameterTable[k].Pervasiveness = raw.feature[f].Pervasiveness

\* the second Language row is missing from variety.csv and stopped the run
C4_Witness ==
    /\ pc = "error" /\ error.dict = "data"
    /\ Len(lookups.LanguageTable) = 2 /\ Len(objects.LanguageTable) = 1
    /\ ~InVariety(raw.languages[2])

\* the first Parameter row is missing from feature.csv and stopped the run
C4_WitnessParameter ==
    /\ pc = "error" /\ error.dict = "data"
    /\ Len(lookups.ParameterTable) = 1 /\ objects.ParameterTable = <<>>
    /\ ~InFeature(raw.parameters[1])

\* association rows of an owner
HasCC(id) == \E k \in 1..Len(raw.cc) : raw.cc[k].language = id
HasSource(id) == \E k \in 1..Len(raw.examplesource) : raw.examplesource[k].example = id
HasSentence(id) == \E k \in 1..Len(raw.valueexample) : raw.valueexample[k].value = id

\* C5: a Value without rows in valueexample.csv, an Example without rows in
\* examplesource.csv and a Language without rows in cc.csv are written with
\* an empty list, and the run goes on.
C5_OptionalJoinMissYieldsEmptyList ==
    /\ pc = "done" =>
          /\ \A k \in 1..Len(raw.values) :
                ~HasSentence(raw.values[k].ID) => objects.ValueTable[k].Example_ID = <<>>
          /\ \A k \in 1..Len(raw.examples) :
                ~HasSource(raw.examples[k]) => objects.ExampleTable[k].Source = <<>>
    /\ \A k \in 1..Len(lookups.LanguageTable) :
          (InVariety(raw.languages[k]) /\ InContributions(raw.languages[k])
             /\ ~HasCC(raw.languages[k]))
          => /\ pc # "error"
             /\ Len(objects.LanguageTable) >= k
             /\ objects.LanguageTable[k].Contributor_ID = <<>>

\* C6: when the run has failed, the output accumulator holds no rows.
C6_NoRowsAfterFailure == pc = "error" => objects = NoObjects

\* C7: the rows written to LanguageTable and ParameterTable are the raw rows
\* in their order, and when the run is through there is one for every raw row.
C7_ExtentAndOrderPreserved ==
    /\ Len(objects.LanguageTable) <= Len(raw.languages)
    /\ \A k \in 1..Len(objects.LanguageTable) :
          objects.LanguageTable[k].ID = raw.languages[k]
    /\ Len(objects.ParameterTable) <= Len(raw.parameters)
    /\ \A k \in 1..Len(objects.ParameterTable) :
          objects.ParameterTable[k].ID = raw.parameters[k]
    /\ pc \in {"parameters", "codes", "values", "done"}
          => Len(objects.LanguageTable) = Len(raw.languages)
    /\ pc \in {"codes", "values", "done"}
          => Len(objects.ParameterTable) = Len(raw.parameters)

\* a finished run over two Language and two Parameter rows
C7_Witness ==
    /\ pc = "done"
    /\ Len(objects.LanguageTable) = 2 /\ Len(objects.ParameterTable) = 2
    /\ objects.LanguageTable[1].ID # objects.LanguageTable[2].ID


\* the entries of the rows of owner o, in the order of their sort keys
Expected(items, o) ==
    LET own == sorted(SelectSeq(items, LAMBDA x : x.owner = o))
    IN  [k \in 1..Len(own) |-> own[k].entry]

Owners(items) == {items[k].owner : k \in 1..Len(items)}

\* d holds, for every owner, the entries of all its rows in key order
Grouped(d, items) ==
    /\ DOMAIN d = Owners(items)
    /\ \A o \in Owners(items) : d[o] = Expected(items, o)

\* C8: each of cc, examplesource and valuesentence holds, for every owner,
\* the entries of all association rows of that owner, in ascending order of
\* the secondary key.
C8_GroupsCompleteAndOrdered ==
    /\ pc \in {"languages", "parameters", "codes", "values", "done"}
          => Grouped(cc, ccItems(raw.cc))
    /\ pc \in {"codes", "values", "done"}
          => Grouped(examplesource, examplesourceItems(raw.examplesource))
    /\ pc = "done" => Grouped(valuesentence, valuesentenceItems(raw.valueexample))

\* C9: a foreign key is declared only when the table it references is in
\* the schema, and when the schema calls are through nothing refers to
\* contributions.csv.
C9_ForeignKeyTargetsExist ==
    /\ (pc = "schema" /\ si <= Len(SchemaOps) /\ op.op = "add_foreign_key")
          => op.ref \in tables
    /\ si > Len(SchemaOps) =>
          /\ "contributions.csv" \notin tables
          /\ \A f \in foreignKeys :
                /\ f.ref \in tables /\ f.table \in tables
                /\ f.ref # "contributions.csv"
                /\ f.col # "Contribution_ID"
          /\ \A c \in columns : c[1] # "contributions.csv" /\ c[2] # "Contribution_ID"

\* the schema calls are through and the keys of history.csv are declared
C9_Witness ==
    /\ si = Len(SchemaOps) + 1
    /\ pc = "vocabularies"
    /\ fk("history.csv", "Code_ID", "codes.csv") \in foreignKeys
    /\ fk("languages.csv", "Region_ID", "regions.csv") \in foreignKeys

\* C10: every join is looked up with the raw ID of its row; a Value row's
\* examples are those of its raw ID although its ID is rewritten.
C10_LookupsUseRawIDs ==
    /\ \A k \in 1..Len(lookups.LanguageTable) : lookups.LanguageTable[k] = raw.languages[k]
    /\ \A k \in 1..Len(lookups.ParameterTable) :
          lookups.ParameterTable[k] = raw.parameters[k]
    /\ \A k \in 1..Len(lookups.ExampleTable) : lookups.ExampleTable[k] = raw.examples[k]
    /\ \A k \in 1..Len(lookups.ValueTable) : lookups.ValueTable[k] = raw.values[k].ID
    /\ pc = "done" =>
          /\ Len(lookups.ValueTable) = Len(raw.values)
          /\ \A k \in 1..Len(raw.values) :
                objects.ValueTable[k].Example_ID = get(valuesentence, raw.values[k].ID)

\* a Value row written with a new ID and with the examples of its raw ID
C10_Witness ==
    /\ pc = "done"
    /\ \E k \in 1..Len(raw.values) :
          /\ objects.ValueTable[k].ID # raw.values[k].ID
          /\ objects.ValueTable[k].Example_ID # <<>>
          /\ lookups.ValueTable[k] = raw.values[k].ID

=============================================================================
